---- MODULE Spec2Model ----
(***************************************************************************)
(* Model of the storage-notification ingestion handler of main.py:         *)
(* ReceiveMessage.post and the helpers it calls, over the three datastore   *)
(* kinds (Notification, ThumbnailReference, Label) and the thumbnail        *)
(* bucket.                                                                  *)
(*                                                                          *)
(* Strings are sequences of one-character strings, so that index, slicing,  *)
(* concatenation and split are computed as Python computes them.  The fixed *)
(* sentence endings of the notification messages are single tokens.         *)
(* Datastore kinds are bags of entities (two entities may hold equal        *)
(* fields).                                                                 *)
(***************************************************************************)
EXTENDS Integers, Sequences, FiniteSets, Bags, TLC

\* ---------------------------------------------------------------- bounds

\* Handler invocations that get past the duplicate lookup and store a
\* Notification are capped; repeats, updates and rejected events are not.
MaxPosts == 3

\* Invocations ended by a failing service call are capped.
MaxFailures == 1

\* ------------------------------------------------------------- constants

MAX_LABELS == 5

DotJpg == <<".", "j", "p", "g">>

FINALIZE == "OBJECT_FINALIZE"
ARCHIVE == "OBJECT_ARCHIVE"
DELETE == "OBJECT_DELETE"
METADATA_UPDATE == "OBJECT_METADATA_UPDATE"

\* ------------------------------------------------------------ the inputs

\* Photo names (objectId) and generation strings (objectGeneration).
PhotoA == <<"a", ".", "j", "p", "g">>
PhotoA1 == <<"a", "1", ".", "j", "p", "g">>

PhotoPng == <<"a", ".", "p", "n", "g">>

PhotoNames == {PhotoA, PhotoA1, PhotoPng}

Gen2 == <<"2">>
Gen12 == <<"1", "2">>

Generations == {Gen2, Gen12}

\* An upload is one object generation in the photo bucket: two generations
\* of a.jpg, one of a1.jpg, and one of a photo that is no .jpg.
Uploads ==
    { u \in [name : PhotoNames, gen : Generations] :
        u.name = PhotoA \/ u.gen = Gen2 }

\* An object generation is finalized once, so its OBJECT_FINALIZE message
\* carries one attribute set, which redelivery repeats verbatim: the later
\* generation of a name is the one that overwrote an older version.
Overwrote(u) == u.gen = Gen12

\* The attributes of a Pub/Sub message; the two overwrite attributes are
\* only tested for presence by the handler.
Events ==
    { [eventType |-> FINALIZE, objectId |-> u.name, objectGeneration |-> u.gen,
       overwroteGeneration |-> Overwrote(u), overwrittenByGeneration |-> FALSE]
        : u \in Uploads }
    \cup
    { [eventType |-> t, objectId |-> u.name, objectGeneration |-> u.gen,
       overwroteGeneration |-> FALSE, overwrittenByGeneration |-> b]
        : t \in {ARCHIVE, DELETE}, u \in Uploads, b \in BOOLEAN }
    \cup
    { [eventType |-> METADATA_UPDATE, objectId |-> u.name,
       objectGeneration |-> u.gen,
       overwroteGeneration |-> FALSE, overwrittenByGeneration |-> FALSE]
        : u \in Uploads }

UploadOf(ev) == [name |-> ev.objectId, gen |-> ev.objectGeneration]

\* The first response of the annotation service: labelAnnotations is absent
\* (None) or a list of at most MAX_LABELS descriptions.
ACat == <<"a", " ", "c", "a", "t">>
The == <<"t", "h", "e">>

NoAnnotations == [present |-> FALSE, labelAnnotations |-> <<>>]

Annotated(l) == [present |-> TRUE, labelAnnotations |-> l]

Responses ==
    {NoAnnotations} \cup
    { Annotated(l) : l \in { d \in {<<ACat, The>>} : Len(d) <= MAX_LABELS } }

\* ------------------------------------------------------- string helpers

InList(x, l) == \E i \in 1..Len(l) : l[i] = x

RECURSIVE IndexFrom(_, _, _)
IndexFrom(s, pat, i) ==
    IF i + Len(pat) > Len(s) THEN -1
    ELSE IF SubSeq(s, i + 1, i + Len(pat)) = pat THEN i
    ELSE IndexFrom(s, pat, i + 1)

\* (variant: a name without the pattern is cut at its end instead of raising)
StrIndex_or_end(s, pat) ==
    IF IndexFrom(s, pat, 0) = -1 THEN Len(s) ELSE IndexFrom(s, pat, 0)

\* str.index: the lowest 0-based position of pat in s; -1 stands for the
\* ValueError raised when pat does not occur.
StrIndex(s, pat) == IndexFrom(s, pat, 0)

\* s[:i] and s[i:]
Prefix(s, i) == SubSeq(s, 1, i)
Suffix(s, i) == SubSeq(s, i + 1, Len(s))

\* str.split(): the maximal runs of non-blank characters, in order.
RECURSIVE SplitFrom(_, _, _)
SplitFrom(s, cur, acc) ==
    IF s = <<>> THEN (IF cur = <<>> THEN acc ELSE Append(acc, cur))
    ELSE IF Head(s) = " "
         THEN SplitFrom(Tail(s), <<>>, IF cur = <<>> THEN acc ELSE Append(acc, cur))
         ELSE SplitFrom(Tail(s), Append(cur, Head(s)), acc)

Split(s) == SplitFrom(s, <<>>, <<>>)

\* list.remove(x): drops the first occurrence of x (x is known to occur).
RECURSIVE RemoveFirst(_, _)
RemoveFirst(l, x) ==
    IF l = <<>> THEN <<>>
    ELSE IF Head(l) = x THEN Tail(l)
    ELSE <<Head(l)>> \o RemoveFirst(Tail(l), x)

\* ------------------------------------------------- thumbnail key, messages

\* thumbnail_key = photo_name[:index] + generation_number + photo_name[index:]
ThumbnailKey(photo_name, generation_number) ==
    LET index == StrIndex(photo_name, DotJpg)
    IN  Prefix(photo_name, index) \o generation_number \o Suffix(photo_name, index)

\* create_notification with a message for every event type.
create_notification_for_update(photo_name, event_type, generation, overwrote_generation, overwritten_by_generation) ==
    LET message ==
          IF event_type = FINALIZE
          THEN IF overwrote_generation
               THEN photo_name \o <<" was uploaded and overwrote an older version of itself.">>
               ELSE photo_name \o <<" was uploaded.">>
          ELSE IF event_type = ARCHIVE
          THEN IF overwritten_by_generation
               THEN photo_name \o <<" was overwritten by a newer version.">>
               ELSE photo_name \o <<" was archived.">>
          ELSE IF event_type = DELETE
          THEN IF overwritten_by_generation
               THEN photo_name \o <<" was overwritten by a newer version.">>
               ELSE photo_name \o <<" was deleted.">>
          ELSE photo_name \o <<" was updated.">>
    IN  [message |-> message, generation |-> generation]

\* (variant: the delete branch does not test overwritten_by_generation)
create_notification_plain_delete(photo_name, event_type, generation, overwrote_generation, overwritten_by_generation) ==
    LET message ==
          IF event_type = FINALIZE
          THEN IF overwrote_generation
               THEN photo_name \o <<" was uploaded and overwrote an older version of itself.">>
               ELSE photo_name \o <<" was uploaded.">>
          ELSE IF event_type = ARCHIVE
          THEN IF overwritten_by_generation
               THEN photo_name \o <<" was overwritten by a newer version.">>
               ELSE photo_name \o <<" was archived.">>
          ELSE IF event_type = DELETE
          THEN photo_name \o <<" was deleted.">>
          ELSE <<>>
    IN  [message |-> message, generation |-> generation]

create_notification(photo_name, event_type, generation, overwrote_generation, overwritten_by_generation) ==
    LET message ==
          IF event_type = FINALIZE
          THEN IF overwrote_generation
               THEN photo_name \o <<" was uploaded and overwrote an older version of itself.">>
               ELSE photo_name \o <<" was uploaded.">>
          ELSE IF event_type = ARCHIVE
          THEN IF overwritten_by_generation
               THEN photo_name \o <<" was overwritten by a newer version.">>
               ELSE photo_name \o <<" was archived.">>
          ELSE IF event_type = DELETE
          THEN IF overwritten_by_generation
               THEN photo_name \o <<" was overwritten by a newer version.">>
               ELSE photo_name \o <<" was deleted.">>
          ELSE <<>>
    IN  [message |-> message, generation |-> generation]

NewNotification(ev) ==
    create_notification(ev.objectId, ev.eventType, ev.objectGeneration,
                        ev.overwroteGeneration, ev.overwrittenByGeneration)

get_original(photo_name, generation) ==
    <<"https://storage.googleapis.com/shared-photo-album/">> \o photo_name
        \o <<"?generation=">> \o generation

\* ------------------------------------------------------------- get_labels

Ignore == { <<"o", "f">>, <<"l", "i", "k", "e">>, <<"t", "h", "e">>,
            <<"a", "n", "d">>, <<"a">>, <<"a", "n">>, <<"w", "i", "t", "h">> }

\* The inner loop over the words of one description.
RECURSIVE AddDescriptors(_, _)
AddDescriptors(labels, descriptors) ==
    IF descriptors = <<>> THEN labels
    ELSE LET descript == Head(descriptors)
         IN  AddDescriptors(
                 IF ~InList(descript, labels) /\ descript \notin Ignore
                 THEN Append(labels, descript) ELSE labels,
                 Tail(descriptors))

\* The outer loop over the annotations of the response.
RECURSIVE AddAnnotations(_, _)
AddAnnotations(labels, labels_full) ==
    IF labels_full = <<>> THEN labels
    ELSE LET description == Head(labels_full)
         IN  AddAnnotations(
                 IF ~InList(description, labels)
                 THEN AddDescriptors(Append(labels, description), Split(description))
                 ELSE labels,
                 Tail(labels_full))

get_labels(response, photo_name) ==
    LET index == StrIndex(photo_name, DotJpg)
        photo_name_label == Prefix(photo_name, index)
    IN  IF ~response.present THEN <<photo_name_label>>
        ELSE AddAnnotations(<<photo_name_label>>, response.labelAnnotations)

\* (variant: the full photo name is not appended)
CreateLabels_without_name(response, photo_name) ==
    LET index == StrIndex(photo_name, DotJpg)
    IN  Append(get_labels(response, photo_name), Prefix(photo_name, index))

\* The labels of the ThumbnailReference built by the create branch:
\* get_labels, then photo_name, then photo_name[:index] appended.
CreateLabels(response, photo_name) ==
    LET index == StrIndex(photo_name, DotJpg)
    IN  Append(Append(get_labels(response, photo_name), photo_name),
               Prefix(photo_name, index))

\* -------------------------------------------------------------- the state

VARIABLES
    notification_store,   \* bag of Notification entities
    reference_store,      \* bag of ThumbnailReference entities
    label_store,          \* bag of Label entities
    thumbnail_bucket,     \* names of the objects in THUMBNAIL_BUCKET
    last,                 \* the last invocation: its event and how it ended
    created,              \* uploads whose create event ran to completion
    retired,              \* uploads with a delete/archive event processed
    aborted,              \* some invocation ended in an exception
    failures,             \* invocations ended by a failing service call
    label_entities,       \* two concurrent invocations: the Label entities
    worker,               \* ... each invocation's place in its Label loop
    raced                 \* ... labels read between a read and its write

vars == <<notification_store, reference_store, label_store, thumbnail_bucket,
          last, created, retired, aborted, failures,
          label_entities, worker, raced>>

race == <<label_entities, worker, raced>>

history == <<created, retired, aborted, failures>>

stores == <<notification_store, reference_store, label_store, thumbnail_bucket>>

NoEvent ==
    [eventType |-> "none", objectId |-> <<>>, objectGeneration |-> <<>>,
     overwroteGeneration |-> FALSE, overwrittenByGeneration |-> FALSE]

Init ==
    /\ notification_store = EmptyBag
    /\ reference_store = EmptyBag
    /\ label_store = EmptyBag
    /\ thumbnail_bucket = {}
    /\ last = [event |-> NoEvent, outcome |-> "none"]
    /\ created = {}
    /\ retired = {}
    /\ aborted = FALSE
    /\ failures = 0
    /\ label_entities = <<>>
    /\ worker = <<>>
    /\ raced = {}

\* -------------------------------------------------------------- datastore

\* entity.put() of a new entity, entity.key.delete(), and put() of an
\* entity that was read and changed.
Put(store, e) == store (+) SetToBag({e})

Delete(store, e) == store (-) SetToBag({e})

Update(store, old, new) == Put(Delete(store, old), new)

\* new_notification.put()
\* (variant: the put reuses one key, so it replaces what was stored)
put_notification_same_key(store, n) == SetToBag({n})

put_notification(store, n) == Put(store, n)

\* (variant: the lookup is skipped)
exists_notification_skipped(store, n) == FALSE

\* (variant: the lookup compares the generation with the wrong field)
exists_notification_wrong_field(store, n) ==
    \E x \in BagToSet(store) :
        x.message = n.message /\ x.generation = n.message

\* Notification.query(message == m, generation == g).get() is not None
exists_notification(store, n) ==
    \E x \in BagToSet(store) :
        x.message = n.message /\ x.generation = n.generation

\* ThumbnailReference.query(thumbnail_key == key): the matching entities;
\* get() returns one of them, or None when there is none.
ReferenceQuery(store, key) == { r \in BagToSet(store) : r.thumbnail_key = key }

\* Label.query(label_name == name)
LabelQuery(store, name) == { l \in BagToSet(store) : l.label_name = name }

\* (variant: an existing Label is read but the key is not appended)
AddToLabel_new_only(store, label, thumbnail_key) ==
    LET found == LabelQuery(store, label)
    IN  IF found = {}
        THEN Put(store, [label_name |-> label, labeled_thumbnails |-> <<thumbnail_key>>])
        ELSE store

\* One iteration of add_thumbnail_reference_to_labels.
AddToLabel(store, label, thumbnail_key) ==
    LET found == LabelQuery(store, label)
    IN  IF found = {}
        THEN Put(store, [label_name |-> label, labeled_thumbnails |-> <<thumbnail_key>>])
        ELSE LET label_to_append_to == CHOOSE l \in found : TRUE
             IN  Update(store, label_to_append_to,
                        [label_to_append_to EXCEPT
                            !.labeled_thumbnails = Append(@, thumbnail_key)])

RECURSIVE add_thumbnail_reference_to_labels(_, _, _)
add_thumbnail_reference_to_labels(store, labels, thumbnail_key) ==
    IF labels = <<>> THEN store
    ELSE add_thumbnail_reference_to_labels(
             AddToLabel(store, Head(labels), thumbnail_key), Tail(labels), thumbnail_key)

\* (variant: the Label is saved even when the removal empties its list)
RemoveFromLabel_always_put(store, label_name, thumbnail_key) ==
    LET found == LabelQuery(store, label_name)
    IN  IF found = {} THEN [store |-> store, ok |-> FALSE]
        ELSE LET label == CHOOSE l \in found : TRUE
             IN  IF ~InList(thumbnail_key, label.labeled_thumbnails)
                 THEN [store |-> store, ok |-> FALSE]
                 ELSE [store |-> Update(store, label,
                                    [label EXCEPT !.labeled_thumbnails =
                                        RemoveFirst(label.labeled_thumbnails,
                                                    thumbnail_key)]),
                       ok |-> TRUE]

\* One iteration of remove_thumbnail_from_labels.  ok is FALSE when the
\* iteration raises: the Label is None, or list.remove finds no such key.
RemoveFromLabel(store, label_name, thumbnail_key) ==
    LET found == LabelQuery(store, label_name)
    IN  IF found = {} THEN [store |-> store, ok |-> FALSE]
        ELSE LET label == CHOOSE l \in found : TRUE
             IN  IF ~InList(thumbnail_key, label.labeled_thumbnails)
                 THEN [store |-> store, ok |-> FALSE]
                 ELSE LET labeled_thumbnails ==
                              RemoveFirst(label.labeled_thumbnails, thumbnail_key)
                      IN  [store |-> IF labeled_thumbnails = <<>>
                                     THEN Delete(store, label)
                                     ELSE Update(store, label,
                                              [label EXCEPT !.labeled_thumbnails =
                                                                labeled_thumbnails]),
                           ok |-> TRUE]

\* The loop of remove_thumbnail_from_labels over thumbnail_reference.labels,
\* up to the first iteration that raises.
RECURSIVE RemoveFromLabels(_, _, _)
RemoveFromLabels(store, labels_to_delete_from, thumbnail_key) ==
    IF labels_to_delete_from = <<>> THEN [store |-> store, ok |-> TRUE]
    ELSE LET step == RemoveFromLabel(store, Head(labels_to_delete_from), thumbnail_key)
         IN  IF ~step.ok THEN step
             ELSE RemoveFromLabels(step.store, Tail(labels_to_delete_from), thumbnail_key)

remove_thumbnail_from_labels(store, thumbnail_reference) ==
    RemoveFromLabels(store, thumbnail_reference.labels, thumbnail_reference.thumbnail_key)

\* ----------------------------------------------------- ReceiveMessage.post

Ended(ev, outcome) == [event |-> ev, outcome |-> outcome]

\* photo_name.index(".jpg") succeeds.
HasJpg(ev) == StrIndex(ev.objectId, DotJpg) >= 0

KeyOf(ev) == ThumbnailKey(ev.objectId, ev.objectGeneration)

\* The handler gets past both early returns and stores new_notification.
Stores(ev) ==
    /\ HasJpg(ev)
    /\ ~exists_notification(notification_store, NewNotification(ev))
    /\ NewNotification(ev).message # <<>>
    /\ BagCardinality(notification_store) < MaxPosts
    /\ notification_store' = put_notification(notification_store, NewNotification(ev))

\* photo_name.index raises ValueError: nothing was read or written yet.
PostReject(ev) ==
    /\ UNCHANGED race
    /\ ~HasJpg(ev)
    /\ last' = Ended(ev, "error")
    /\ aborted' = TRUE
    /\ UNCHANGED <<stores, created, retired, failures>>

\* The notification is already stored: a repeat, ignored.
PostRepeat(ev) ==
    /\ UNCHANGED race
    /\ HasJpg(ev)
    /\ exists_notification(notification_store, NewNotification(ev))
    /\ last' = Ended(ev, "repeat")
    /\ UNCHANGED <<stores, history>>

\* Neither branch runs.  The message is empty (a metadata update): post
\* returns before the put.  Otherwise the event type is none of the three
\* the branches test, and post ends after the put.
PostNoAction(ev) ==
    /\ UNCHANGED race
    /\ HasJpg(ev)
    /\ ~exists_notification(notification_store, NewNotification(ev))
    /\ IF NewNotification(ev).message = <<>>
       THEN /\ UNCHANGED notification_store
            /\ last' = Ended(ev, "ignored")
       ELSE /\ ev.eventType \notin {FINALIZE, ARCHIVE, DELETE}
            /\ BagCardinality(notification_store) < MaxPosts
            /\ notification_store' =
                   put_notification(notification_store, NewNotification(ev))
            /\ last' = Ended(ev, "stored")
    /\ UNCHANGED <<reference_store, label_store, thumbnail_bucket, history>>

NewReference(ev, response) ==
    [thumbnail_name |-> ev.objectId,
     thumbnail_key |-> KeyOf(ev),
     labels |-> CreateLabels(response, ev.objectId),
     original_photo |-> get_original(ev.objectId, ev.objectGeneration)]

\* The create branch, run to its end.
PostCreate(ev) ==
    /\ UNCHANGED race
    /\ Stores(ev)
    /\ ev.eventType = FINALIZE
    /\ \E response \in Responses :
          LET thumbnail_reference == NewReference(ev, response)
          IN  /\ thumbnail_bucket' = thumbnail_bucket \cup {KeyOf(ev)}
              /\ reference_store' = Put(reference_store, thumbnail_reference)
              /\ label_store' =
                     add_thumbnail_reference_to_labels(
                         label_store, thumbnail_reference.labels, KeyOf(ev))
    /\ last' = Ended(ev, "created")
    /\ created' = created \cup {UploadOf(ev)}
    /\ UNCHANGED <<retired, aborted, failures>>

\* (variant: the Labels are updated first and the reference is put last)
CreateUpTo_labels_first(references, labels, thumbnail_reference, done) ==
    [references |-> IF done = Len(thumbnail_reference.labels)
                    THEN Put(references, thumbnail_reference) ELSE references,
     labels |-> add_thumbnail_reference_to_labels(
                    labels, SubSeq(thumbnail_reference.labels, 1, done),
                    thumbnail_reference.thumbnail_key)]

\* Lines 156-158 up to a failing datastore call: the reference is put, then
\* the first done labels are handled.
CreateUpTo(references, labels, thumbnail_reference, done) ==
    [references |-> Put(references, thumbnail_reference),
     labels |-> add_thumbnail_reference_to_labels(
                    labels, SubSeq(thumbnail_reference.labels, 1, done),
                    thumbnail_reference.thumbnail_key)]

\* The create branch, ended by a failing service call: the resize or the
\* bucket write (nothing but the Notification is stored), the annotation
\* call or the put of the reference (the thumbnail is in the bucket), or a
\* Label read or write after done labels were handled.
PostCreateAbort(ev) ==
    /\ UNCHANGED race
    /\ Stores(ev)
    /\ failures < MaxFailures
    /\ failures' = failures + 1
    /\ ev.eventType = FINALIZE
    /\ \/ UNCHANGED <<thumbnail_bucket, reference_store, label_store>>
       \/ /\ thumbnail_bucket' = thumbnail_bucket \cup {KeyOf(ev)}
          /\ UNCHANGED <<reference_store, label_store>>
       \/ \E response \in Responses :
             LET thumbnail_reference == NewReference(ev, response)
             IN  \E done \in 0..(Len(thumbnail_reference.labels) - 1) :
                    LET partial == CreateUpTo(reference_store, label_store,
                                              thumbnail_reference, done)
                    IN  /\ thumbnail_bucket' = thumbnail_bucket \cup {KeyOf(ev)}
                        /\ reference_store' = partial.references
                        /\ label_store' = partial.labels
    /\ last' = Ended(ev, "aborted")
    /\ aborted' = TRUE
    /\ UNCHANGED <<created, retired>>

IsRemoval(ev) == ev.eventType = DELETE \/ ev.eventType = ARCHIVE

\* The delete/archive branch, run to its end.  Both queries for the
\* reference read the same unchanged kind and return the same entity.
PostRemove(ev) ==
    /\ UNCHANGED race
    /\ Stores(ev)
    /\ IsRemoval(ev)
    /\ \E thumbnail_reference \in ReferenceQuery(reference_store, KeyOf(ev)) :
          LET removal == remove_thumbnail_from_labels(label_store, thumbnail_reference)
          IN  /\ removal.ok
              /\ KeyOf(ev) \in thumbnail_bucket
              /\ label_store' = removal.store
              /\ reference_store' = Delete(reference_store, thumbnail_reference)
              /\ thumbnail_bucket' = thumbnail_bucket \ {KeyOf(ev)}
    /\ last' = Ended(ev, "removed")
    /\ retired' = retired \cup {UploadOf(ev)}
    /\ UNCHANGED <<created, aborted, failures>>

\* The delete/archive branch, ended by an exception of its own: the
\* reference query returns None, a Label is None or does not list the key,
\* or gcs.delete finds no object under the key.
PostRemoveAbort(ev) ==
    /\ UNCHANGED race
    /\ Stores(ev)
    /\ IsRemoval(ev)
    /\ \/ /\ ReferenceQuery(reference_store, KeyOf(ev)) = {}
          /\ UNCHANGED <<reference_store, label_store, thumbnail_bucket>>
       \/ \E thumbnail_reference \in ReferenceQuery(reference_store, KeyOf(ev)) :
             LET removal == remove_thumbnail_from_labels(label_store, thumbnail_reference)
             IN  \/ /\ ~removal.ok
                    /\ label_store' = removal.store
                    /\ UNCHANGED <<reference_store, thumbnail_bucket>>
                 \/ /\ removal.ok
                    /\ KeyOf(ev) \notin thumbnail_bucket
                    /\ label_store' = removal.store
                    /\ reference_store' = Delete(reference_store, thumbnail_reference)
                    /\ UNCHANGED thumbnail_bucket
    /\ last' = Ended(ev, "aborted")
    /\ aborted' = TRUE
    /\ retired' = retired \cup {UploadOf(ev)}
    /\ UNCHANGED <<created, failures>>

\* The delete/archive branch, ended by a failing service call: a Label read
\* or write after done labels were handled, the calls between the loop and
\* the delete of the reference (done is the number of labels), or
\* gcs.delete after the reference was deleted.
PostRemoveFail(ev) ==
    /\ UNCHANGED race
    /\ Stores(ev)
    /\ failures < MaxFailures
    /\ failures' = failures + 1
    /\ IsRemoval(ev)
    /\ \/ UNCHANGED <<reference_store, label_store, thumbnail_bucket>>
       \/ \E thumbnail_reference \in ReferenceQuery(reference_store, KeyOf(ev)) :
             \/ \E done \in 1..Len(thumbnail_reference.labels) :
                   LET removal == RemoveFromLabels(
                                      label_store,
                                      SubSeq(thumbnail_reference.labels, 1, done),
                                      KeyOf(ev))
                   IN  /\ removal.ok
                       /\ label_store' = removal.store
                       /\ UNCHANGED <<reference_store, thumbnail_bucket>>
             \/ LET removal == remove_thumbnail_from_labels(label_store, thumbnail_reference)
                IN  /\ removal.ok
                    /\ label_store' = removal.store
                    /\ reference_store' = Delete(reference_store, thumbnail_reference)
                    /\ UNCHANGED thumbnail_bucket
    /\ last' = Ended(ev, "aborted")
    /\ aborted' = TRUE
    /\ retired' = retired \cup {UploadOf(ev)}
    /\ UNCHANGED created

Post(ev) ==
    \/ PostReject(ev)
    \/ PostRepeat(ev)
    \/ PostNoAction(ev)
    \/ PostCreate(ev)
    \/ PostRemove(ev)
    \/ PostRemoveAbort(ev)

Next == \E ev \in Events : Post(ev)

Spec == Init /\ [][Next]_vars

\* The handler when the services it calls may fail, for the events that
\* reach the duplicate lookup with a message: the create, delete and archive
\* events of .jpg photos, first deliveries and repeats.
PostOrFail(ev) ==
    \/ PostRepeat(ev)
    \/ PostCreate(ev)
    \/ PostCreateAbort(ev)
    \/ PostRemove(ev)
    \/ PostRemoveAbort(ev)
    \/ PostRemoveFail(ev)

NextFail == \E ev \in Events : PostOrFail(ev)

SpecFail == Init /\ [][NextFail]_vars

\* Sequentially a label name has one Label entity, so the Label query in
\* AddToLabel and RemoveFromLabel has one answer.
LabelNamesUnique ==
    \A l1, l2 \in BagToSet(label_store) :
        l1.label_name = l2.label_name => l1 = l2 /\ CopiesIn(l1, label_store) = 1

\* ------------------------------------------------------------- properties

Notifications == BagToSet(notification_store)

References == BagToSet(reference_store)

Labels == BagToSet(label_store)

\* The number of ThumbnailReference entities with the given key.
ReferenceCount(key) ==
    LET found == ReferenceQuery(reference_store, key)
    IN  BagCardinality([r \in found |-> CopiesIn(r, reference_store)])

ListsKey(label, key) == InList(key, label.labeled_thumbnails)

\* C1: an invocation for an event whose notification (same message, same
\* generation) is already stored changes none of the Notification store, the
\* ThumbnailReference store, the Label index and the thumbnail bucket.
C1_RepeatChangesNothing ==
    [][ (/\ HasJpg(last'.event)
         /\ BagIn(NewNotification(last'.event), notification_store))
        => UNCHANGED stores ]_vars

C1_Witness ==
    /\ last.outcome = "repeat"
    /\ BagIn(NewNotification(last.event), notification_store)
    /\ reference_store # EmptyBag
    /\ label_store # EmptyBag

\* C2: the Notification store holds at most one Notification for each
\* (message, generation) pair.
C2_OneNotificationPerPair ==
    \A n \in Notifications : CopiesIn(n, notification_store) = 1

C2_Witness ==
    /\ last.outcome = "repeat"
    /\ BagCardinality(notification_store) >= 2

\* C3: when every invocation so far ran to completion, each label of each
\* ThumbnailReference has a Label that lists the reference's key, and each
\* key listed by a Label has a ThumbnailReference that carries the label.
IndicesAgree ==
    /\ \A r \in References : \A i \in 1..Len(r.labels) :
          \E l \in Labels :
              l.label_name = r.labels[i] /\ ListsKey(l, r.thumbnail_key)
    /\ \A l \in Labels : \A i \in 1..Len(l.labeled_thumbnails) :
          \E r \in References :
              /\ r.thumbnail_key = l.labeled_thumbnails[i]
              /\ InList(l.label_name, r.labels)

C3_IndicesAgree == ~aborted => IndicesAgree

\* A removal ran while another generation of the same photo, which shares
\* the filename labels, stays indexed.
C3_Witness ==
    /\ ~aborted
    /\ last.outcome = "removed"
    /\ \E r \in References :
          /\ r.thumbnail_name = last.event.objectId
          /\ r.thumbnail_key # KeyOf(last.event)

\* C4: once the delete/archive branch ran to its end for an upload whose
\* create event ran to completion, no ThumbnailReference has the upload's
\* thumbnail key, no Label lists it, and no object is stored under it.
C4_RemovedIsGone ==
    (last.outcome = "removed" /\ UploadOf(last.event) \in created)
    => /\ ReferenceQuery(reference_store, KeyOf(last.event)) = {}
       /\ \A l \in Labels : ~ListsKey(l, KeyOf(last.event))
       /\ KeyOf(last.event) \notin thumbnail_bucket

\* C5: when every invocation so far ran to completion, no Label lists a
\* thumbnail key twice.
C5_KeysListedOnce ==
    ~aborted =>
        \A l \in Labels : \A i, j \in 1..Len(l.labeled_thumbnails) :
            l.labeled_thumbnails[i] = l.labeled_thumbnails[j] => i = j

\* C6: every stored Label lists at least one thumbnail key.
C6_NoEmptyLabel == \A l \in Labels : l.labeled_thumbnails # <<>>

C6_Witness ==
    /\ last.outcome = "removed"
    /\ label_store # EmptyBag
    /\ \A l \in Labels : ~ListsKey(l, KeyOf(last.event))
    /\ \A l \in Labels : l.label_name # last.event.objectId

\* C7: two uploads that differ in photo name or generation have different
\* thumbnail keys.
C7_KeysDiffer ==
    \A u1, u2 \in created :
        u1 # u2 => ThumbnailKey(u1.name, u1.gen) # ThumbnailKey(u2.name, u2.gen)

\* C8: an invocation for an event of a type other than OBJECT_FINALIZE,
\* OBJECT_ARCHIVE and OBJECT_DELETE stores no Notification and changes none
\* of the stores.
C8_UpdateChangesNothing ==
    [][ last'.event.eventType \notin {FINALIZE, ARCHIVE, DELETE}
        => UNCHANGED stores ]_vars

C8_Witness ==
    /\ last.outcome = "ignored"
    /\ last.event.eventType = METADATA_UPDATE
    /\ reference_store # EmptyBag
    /\ BagCardinality(notification_store) >= 2

\* C9: no two ThumbnailReferences share a thumbnail key, and an upload whose
\* create event ran to completion and that had no delete or archive event
\* processed has exactly one.
C9_OneReferencePerUpload ==
    /\ \A r \in References : ReferenceCount(r.thumbnail_key) <= 1
    /\ \A u \in created \ retired : ReferenceCount(ThumbnailKey(u.name, u.gen)) = 1

\* C10: a stored Notification stays stored, with its message and generation,
\* whatever is processed afterwards.
C10_NotificationsKept ==
    [][ \A n \in Notifications :
            CopiesIn(n, notification_store') >= CopiesIn(n, notification_store) ]_vars

C10_Witness ==
    /\ last.outcome = "removed"
    /\ BagCardinality(notification_store) >= 3

\* The message the event's attributes call for.
ExpectedMessage(ev) ==
    CASE ev.eventType = FINALIZE /\ ev.overwroteGeneration ->
            ev.objectId \o <<" was uploaded and overwrote an older version of itself.">>
      [] ev.eventType = FINALIZE /\ ~ev.overwroteGeneration ->
            ev.objectId \o <<" was uploaded.">>
      [] ev.eventType \in {ARCHIVE, DELETE} /\ ev.overwrittenByGeneration ->
            ev.objectId \o <<" was overwritten by a newer version.">>
      [] ev.eventType = ARCHIVE /\ ~ev.overwrittenByGeneration ->
            ev.objectId \o <<" was archived.">>
      [] ev.eventType = DELETE /\ ~ev.overwrittenByGeneration ->
            ev.objectId \o <<" was deleted.">>
      [] OTHER -> <<>>

\* C11: the notification computed for the event just handled has the
\* message its event type and overwrite attributes call for and the event's
\* generation, and when the invocation got past both early returns that
\* notification is the one stored.
C11_MessageByEventType ==
    last.outcome # "none" =>
        /\ NewNotification(last.event) =
               [message |-> ExpectedMessage(last.event),
                generation |-> last.event.objectGeneration]
        /\ last.outcome \in {"created", "removed", "aborted"} =>
               BagIn([message |-> ExpectedMessage(last.event),
                      generation |-> last.event.objectGeneration],
                     notification_store)

C11_Witness ==
    /\ last.outcome = "removed"
    /\ last.event.eventType = DELETE
    /\ last.event.overwrittenByGeneration
    /\ \E n \in Notifications :
          n.message = last.event.objectId \o <<" was overwritten by a newer version.">>

\* C12: right after a create event ran to completion, the Label named
\* after the photo name and the Label named after the photo name cut before
\* ".jpg" both exist and list the upload's thumbnail key.
C12_FilenameLabels ==
    last.outcome = "created" =>
        LET photo_name == last.event.objectId
            stem == Prefix(photo_name, StrIndex(photo_name, DotJpg))
        IN  /\ \E l \in Labels :
                  l.label_name = photo_name /\ ListsKey(l, KeyOf(last.event))
            /\ \E l \in Labels :
                  l.label_name = stem /\ ListsKey(l, KeyOf(last.event))

\* The create event ran with annotations, next to another generation of
\* the same photo.
C12_Witness ==
    /\ last.outcome = "created"
    /\ \E r \in References :
          r.thumbnail_key = KeyOf(last.event) /\ InList(ACat, r.labels)
    /\ \E r \in References :
          r.thumbnail_name = last.event.objectId /\ r.thumbnail_key # KeyOf(last.event)

\* C13: no label that get_labels took from the annotation response (the
\* labels after the filename label and before the two the handler appends)
\* is a word of the ignore list.
C13_NoIgnoredLabel ==
    \A r \in References : \A i \in 2..(Len(r.labels) - 2) :
        r.labels[i] \notin Ignore

\* C14: no delete/archive invocation ends in an exception for want of a
\* record: the ThumbnailReference and every Label it names are found.
C14_RemovalFindsRecords ==
    ~(IsRemoval(last.event) /\ last.outcome = "aborted")

\* C18: an invocation for an event whose objectId does not contain ".jpg"
\* stores no Notification and changes none of the stores.
ContainsJpg(name) ==
    \E i \in 1..(Len(name) - 3) : SubSeq(name, i, i + 3) = DotJpg

C18_NoJpgChangesNothing ==
    [][ ~ContainsJpg(last'.event.objectId) => UNCHANGED stores ]_vars

C18_Witness ==
    /\ last.outcome = "error"
    /\ ~ContainsJpg(last.event.objectId)
    /\ last.event.eventType = FINALIZE
    /\ reference_store # EmptyBag

\* C16: every thumbnail key a Label lists has a stored ThumbnailReference
\* with that key, in every state an invocation can be left in.
C16_ListedKeyHasReference ==
    \A l \in Labels : \A i \in 1..Len(l.labeled_thumbnails) :
        ReferenceQuery(reference_store, l.labeled_thumbnails[i]) # {}

\* An invocation was cut short between its Label updates.
C16_Witness ==
    /\ last.outcome = "aborted"
    /\ failures > 0
    /\ \E r \in ReferenceQuery(reference_store, KeyOf(last.event)) :
          /\ \E l \in Labels : ListsKey(l, r.thumbnail_key)
          /\ \E i \in 1..Len(r.labels) :
                \A l \in Labels :
                    l.label_name = r.labels[i] => ~ListsKey(l, r.thumbnail_key)

\* The create message of an upload, and whether its Notification is stored
\* while its create branch never ran to the end: its first delivery aborted.
FinalizeOf(u) ==
    [eventType |-> FINALIZE, objectId |-> u.name, objectGeneration |-> u.gen,
     overwroteGeneration |-> Overwrote(u), overwrittenByGeneration |-> FALSE]

CreateAborted(u) ==
    /\ BagIn([message |-> ExpectedMessage(FinalizeOf(u)), generation |-> u.gen],
             notification_store)
    /\ u \notin created

\* The upload's ThumbnailReference is stored and each of its labels lists
\* its key.
FullyIndexed(u) ==
    \E r \in References :
        /\ r.thumbnail_name = u.name
        /\ r.thumbnail_key = ThumbnailKey(u.name, u.gen)
        /\ \A i \in 1..Len(r.labels) :
              \E l \in Labels :
                  l.label_name = r.labels[i] /\ ListsKey(l, r.thumbnail_key)

\* C15 as claimed: once the redelivery of an aborted create event has been
\* handled to completion, the upload is fully indexed.
C15_RedeliveryCompletesCreate ==
    (/\ last.event.eventType = FINALIZE
     /\ last.outcome = "repeat"
     /\ CreateAborted(UploadOf(last.event)))
    => FullyIndexed(UploadOf(last.event))

\* C15 as amended: after a create invocation aborted past the put of its
\* Notification, the create branch never runs for that upload again, and a
\* redelivery of its message changes none of the stores.
C15_AbortedCreateIsNotRetried ==
    [][ \A u \in Uploads :
            CreateAborted(u) =>
                /\ u \notin created'
                /\ last'.event = FinalizeOf(u) => UNCHANGED stores ]_vars

\* The redelivery was handled and the upload has no ThumbnailReference.
C15_Witness ==
    /\ last.event.eventType = FINALIZE
    /\ last.outcome = "repeat"
    /\ CreateAborted(UploadOf(last.event))
    /\ failures > 0
    /\ ReferenceQuery(reference_store, KeyOf(last.event)) = {}

\* ------------------------------------------- two invocations at line 158
\*
\* Two create invocations for different uploads run
\* add_thumbnail_reference_to_labels at the same time.  Each iteration is a
\* read (the query of line 274) and a write (the put of line 279 or 282) of
\* the entity that was read; reads and writes of the two invocations
\* interleave freely.  Entities are identified by their position in
\* label_entities, which stands for the datastore key.

Workers == {1, 2}

ValidUploads == { u \in Uploads : StrIndex(u.name, DotJpg) >= 0 }

\* An older generation of a.jpg, indexed before the two invocations start.
Gen1 == <<"1">>

PriorUpload == [name |-> PhotoA, gen |-> Gen1]

\* Label.query(label_name == label): the positions of the matching entities.
EntityQuery(entities, label) ==
    { i \in 1..Len(entities) : entities[i].label_name = label }

\* (variant: an entity that was found is put back as it is stored)
LabelPut_new_only(entities, found, local, label, thumbnail_key) ==
    IF found = 0
    THEN Append(entities, [label_name |-> label, labeled_thumbnails |-> <<thumbnail_key>>])
    ELSE entities

\* Lines 275-282: a new Label is put when the query returned None (found is
\* 0); otherwise the key is appended to the list that was read and the
\* entity is put back under its key.
LabelPut(entities, found, local, label, thumbnail_key) ==
    IF found = 0
    THEN Append(entities, [label_name |-> label, labeled_thumbnails |-> <<thumbnail_key>>])
    ELSE [entities EXCEPT ![found] =
              [label_name |-> label, labeled_thumbnails |-> Append(local, thumbnail_key)]]

\* add_thumbnail_reference_to_labels run alone.
RECURSIVE AddAlone(_, _, _)
AddAlone(entities, labels, thumbnail_key) ==
    IF labels = <<>> THEN entities
    ELSE LET found == EntityQuery(entities, Head(labels))
             at == IF found = {} THEN 0 ELSE CHOOSE i \in found : TRUE
         IN  AddAlone(
                 LabelPut(entities, at,
                          IF at = 0 THEN <<>> ELSE entities[at].labeled_thumbnails,
                          Head(labels), thumbnail_key),
                 Tail(labels), thumbnail_key)

StartOf(u, response) ==
    [thumbnail_key |-> ThumbnailKey(u.name, u.gen),
     all |-> CreateLabels(response, u.name),
     labels |-> CreateLabels(response, u.name),
     pc |-> "query", found |-> 0, local |-> <<>>]

RaceInit ==
    /\ notification_store = EmptyBag
    /\ reference_store = EmptyBag
    /\ label_store = EmptyBag
    /\ thumbnail_bucket = {}
    /\ last = [event |-> NoEvent, outcome |-> "none"]
    /\ created = {}
    /\ retired = {}
    /\ aborted = FALSE
    /\ failures = 0
    /\ raced = {}
    /\ \E u1, u2 \in ValidUploads : \E r1, r2 \in Responses :
          /\ ThumbnailKey(u1.name, u1.gen) # ThumbnailKey(u2.name, u2.gen)
          /\ worker = <<StartOf(u1, r1), StartOf(u2, r2)>>
    /\ \/ label_entities = <<>>
       \/ \E r \in Responses :
             label_entities =
                 AddAlone(<<>>, CreateLabels(r, PriorUpload.name),
                          ThumbnailKey(PriorUpload.name, PriorUpload.gen))

Other(w) == CHOOSE o \in Workers : o # w

\* The query of line 274, for the label the invocation is at.
RaceQuery(w) ==
    /\ worker # <<>>
    /\ worker[w].pc = "query"
    /\ LET label == Head(worker[w].labels)
           found == EntityQuery(label_entities, label)
       IN  /\ \/ /\ found = {}
                 /\ worker' = [worker EXCEPT ![w].pc = "put", ![w].found = 0,
                                             ![w].local = <<>>]
              \/ \E i \in found :
                    worker' = [worker EXCEPT
                                  ![w].pc = "put", ![w].found = i,
                                  ![w].local = label_entities[i].labeled_thumbnails]
           /\ raced' = IF /\ worker[Other(w)].pc = "put"
                          /\ Head(worker[Other(w)].labels) = label
                       THEN raced \cup {label} ELSE raced
    /\ UNCHANGED <<stores, last, history, label_entities>>

\* The put of line 279 or 282, then on to the next label.
RacePut(w) ==
    /\ worker # <<>>
    /\ worker[w].pc = "put"
    /\ label_entities' =
           LabelPut(label_entities, worker[w].found, worker[w].local,
                    Head(worker[w].labels), worker[w].thumbnail_key)
    /\ worker' = [worker EXCEPT
                     ![w].labels = Tail(@),
                     ![w].pc = IF Tail(worker[w].labels) = <<>> THEN "done" ELSE "query"]
    /\ UNCHANGED <<stores, last, history, raced>>

RaceNext == \E w \in Workers : RaceQuery(w) \/ RacePut(w)

SpecRace == RaceInit /\ [][RaceNext]_vars

RaceDone == worker # <<>> /\ \A w \in Workers : worker[w].pc = "done"

\* The labels both invocations handle.
SharedLabels ==
    { worker[1].all[i] : i \in { j \in 1..Len(worker[1].all) :
                                   InList(worker[1].all[j], worker[2].all) } }

EntityLists(i, w) ==
    InList(worker[w].thumbnail_key, label_entities[i].labeled_thumbnails)

OneLabelWithBothKeys(label) ==
    /\ Cardinality(EntityQuery(label_entities, label)) = 1
    /\ \A i \in EntityQuery(label_entities, label) :
          EntityLists(i, 1) /\ EntityLists(i, 2)

\* C17: after both invocations complete, each label they share has exactly
\* one Label record and it lists both thumbnail keys.
C17_NoLostLabelEntry ==
    RaceDone => \A label \in SharedLabels : OneLabelWithBothKeys(label)

\* What the two invocations do guarantee: each label they share ends with one
\* or two Label records, each listing at least one of the two keys, and with
\* exactly one record listing both keys when neither invocation read that
\* Label between the other's read and write of it.
RaceLosesOnlyWhenRaced ==
    RaceDone =>
        \A label \in SharedLabels :
            /\ Cardinality(EntityQuery(label_entities, label)) \in {1, 2}
            /\ \A i \in EntityQuery(label_entities, label) :
                  EntityLists(i, 1) \/ EntityLists(i, 2)
            /\ label \notin raced => OneLabelWithBothKeys(label)

\* Both invocations are complete, and a shared Label that existed before
\* lost one of the two keys.
RaceLostEntry ==
    /\ RaceDone
    /\ \E label \in SharedLabels :
          /\ label \in raced
          /\ Cardinality(EntityQuery(label_entities, label)) = 1
          /\ \E i \in EntityQuery(label_entities, label) :
                /\ ~(EntityLists(i, 1) /\ EntityLists(i, 2))
                /\ InList(ThumbnailKey(PriorUpload.name, PriorUpload.gen),
                          label_entities[i].labeled_thumbnails)

====
